---- MODULE Spec2Model ----
(***************************************************************************)
(* Model of fastapi_middleware_logger.py: the logging middleware           *)
(* (middleware_logger inside add_custom_logger), the helpers parse_body    *)
(* and set_body, the two default loggers and disable_loggers.              *)
(*                                                                         *)
(* Bytes are sequences of integers 0..255.  A header list or a query list  *)
(* is a sequence of <<name, value>> pairs, possibly with repeated names.   *)
(* A Python dict is a sequence of <<key, value>> pairs with distinct keys  *)
(* in insertion order.                                                     *)
(***************************************************************************)
EXTENDS Integers, Sequences, FiniteSets, TLC

\* ------------------------------------------------------------------ bounds
NumReqs == 2        \* invocations of middleware_logger that may be in flight
MaxReads == 2       \* times the wrapped handler reads the request body
MaxLen == 22        \* longest byte payload handed to a default logger
MaxCalls == 3       \* calls of disable_loggers that are followed

Reqs == 1..NumReqs

\* ------------------------------------------------------- program constants
TruncLen == 20      \* v[:20] in default_logger / default_error_logger
CRITICAL == 50      \* logging.CRITICAL

Min(a, b) == IF a < b THEN a ELSE b

RECURSIVE Concat(_)
Concat(chunks) ==
    IF chunks = <<>> THEN <<>> ELSE Head(chunks) \o Concat(Tail(chunks))

\* ---------------------------------------------------------------- parse_body
IsCont(b) == b >= 128 /\ b <= 191

\* bytes.decode('utf-8') in strict mode: the code points, or ok = FALSE where
\* Python raises UnicodeDecodeError.
RECURSIVE Utf8Decode(_, _)
Utf8Decode(bs, acc) ==
    IF bs = <<>> THEN [ok |-> TRUE, cps |-> acc]
    ELSE LET b == bs[1]
             n == Len(bs)
         IN  IF b < 128
             THEN Utf8Decode(Tail(bs), Append(acc, b))
             ELSE IF b >= 194 /\ b <= 223 /\ n >= 2 /\ IsCont(bs[2])
             THEN Utf8Decode(SubSeq(bs, 3, n),
                             Append(acc, (b - 192) * 64 + (bs[2] - 128)))
             ELSE IF /\ b >= 224 /\ b <= 239 /\ n >= 3
                     /\ IsCont(bs[2]) /\ IsCont(bs[3])
                     /\ (b = 224 => bs[2] >= 160)
                     /\ (b = 237 => bs[2] <= 159)
             THEN Utf8Decode(SubSeq(bs, 4, n),
                             Append(acc, (b - 224) * 4096 + (bs[2] - 128) * 64
                                         + (bs[3] - 128)))
             ELSE IF /\ b >= 240 /\ b <= 244 /\ n >= 4
                     /\ IsCont(bs[2]) /\ IsCont(bs[3]) /\ IsCont(bs[4])
                     /\ (b = 240 => bs[2] >= 144)
                     /\ (b = 244 => bs[2] <= 143)
             THEN Utf8Decode(SubSeq(bs, 5, n),
                             Append(acc, (b - 240) * 262144
                                         + (bs[2] - 128) * 4096
                                         + (bs[3] - 128) * 64 + (bs[4] - 128)))
             ELSE [ok |-> FALSE, cps |-> <<>>]

\* try: return content.decode('utf-8')  except: return content
parse_body(content) ==
    LET d == Utf8Decode(content, <<>>)
    IN  IF d.ok THEN [kind |-> "str", v |-> d.cps]
                ELSE [kind |-> "bytes", v |-> content]

\* ------------------------------------------------- dict(...) of a multi-map
HasKey(d, k) == \E i \in 1..Len(d) : d[i][1] = k

\* d[k] = v : overwrite in place, or insert at the end
DictSet(d, k, v) ==
    IF HasKey(d, k)
    THEN [i \in 1..Len(d) |-> IF d[i][1] = k THEN <<k, v>> ELSE d[i]]
    ELSE Append(d, <<k, v>>)

\* Headers.__getitem__ : the value of the first item with that name
FirstValue(items, k) ==
    items[CHOOSE i \in 1..Len(items) :
              /\ items[i][1] = k
              /\ \A j \in 1..(i - 1) : items[j][1] # k][2]

\* QueryParams.__getitem__ : the value of the last item with that name
LastValue(items, k) ==
    items[CHOOSE i \in 1..Len(items) :
              /\ items[i][1] = k
              /\ \A j \in (i + 1)..Len(items) : items[j][1] # k][2]

\* dict(request.headers), dict(response.headers):
\* for k in headers.keys(): d[k] = headers[k]
RECURSIVE HeadersDictFrom(_, _, _)
HeadersDictFrom(items, i, d) ==
    IF i > Len(items) THEN d
    ELSE HeadersDictFrom(items, i + 1,
                         DictSet(d, items[i][1], FirstValue(items, items[i][1])))

HeadersDict(items) == HeadersDictFrom(items, 1, <<>>)

\* dict(request.query_params)
RECURSIVE QueryDictFrom(_, _, _)
QueryDictFrom(items, i, d) ==
    IF i > Len(items) THEN d
    ELSE QueryDictFrom(items, i + 1,
                       DictSet(d, items[i][1], LastValue(items, items[i][1])))

QueryDict(items) == QueryDictFrom(items, 1, <<>>)

\* --------------------------------------------------------------- exceptions
NoExc == [type |-> "None", arg |-> "", origin |-> "none"]

HandlerExcs ==
    { [type |-> "ValueError", arg |-> "bad input", origin |-> "handler"],
      [type |-> "KeyError", arg |-> "k", origin |-> "handler"],
      [type |-> "CancelledError", arg |-> "", origin |-> "handler"] }

LoggerExc == [type |-> "RuntimeError", arg |-> "logger failed",
              origin |-> "error_logger"]

StreamExc == [type |-> "OSError", arg |-> "stream broken", origin |-> "stream"]

\* `except Exception` does not catch a BaseException such as CancelledError
IsException(e) == e.type # "CancelledError"

\* str(exc): the single argument, which KeyError shows as its repr
Str(e) == IF e.type = "KeyError" THEN "'" \o e.arg \o "'" ELSE e.arg


\* ------------------------------------------------------------------- inputs
\* Request bodies the client sends: empty, ASCII, a two-byte UTF-8 character,
\* and bytes that are not UTF-8.
BodySamples == { <<>>, <<65>>, <<65, 66, 67>>, <<195, 169>>, <<255, 65>> }

\* A body arrives as one http.request message or as two.
Streams(b) ==
    { <<b>> } \cup
    (IF Len(b) >= 2 THEN { <<SubSeq(b, 1, 1), SubSeq(b, 2, Len(b))>> } ELSE {})

RequestStreams == UNION { Streams(b) : b \in BodySamples }

RequestMetas ==
    { [method |-> "GET", url |-> "http://h/a?a=1",
       query |-> << <<"a", "1">> >>,
       headers |-> << <<"host", "h">> >>],
      [method |-> "POST", url |-> "http://h/b?x=1&x=2",
       query |-> << <<"x", "1">>, <<"x", "2">> >>,
       headers |-> << <<"accept", "a">>, <<"host", "h">>, <<"accept", "b">> >>] }

MkRequest(m, s) ==
    [method |-> m.method, url |-> m.url, query |-> m.query,
     headers |-> m.headers, chunks |-> s]

RichRequests == { MkRequest(m, s) : m \in RequestMetas, s \in RequestStreams }

MediaNone == "None"

HeaderSamples ==
    { <<>>,
      << <<"x-test", "v">> >>,
      << <<"set-cookie", "a=1">>, <<"x-test", "v">>, <<"set-cookie", "b=2">> >> }

ChunkSamples ==
    { <<>>,
      << <<123, 125>> >>,
      << <<123, 34>>, <<125>> >>,
      << <<255>>, <<>>, <<66>> >> }

NoResponse == [kind |-> "none"]

\* The response object the wrapped handler returns.  failAt = k > 0: the k-th
\* fetch from body_iterator raises StreamExc; failAt = 0: the stream ends well.
MkResponse(st, h, m, c, k) ==
    [kind |-> "response", status_code |-> st, headers |-> h, media_type |-> m,
     chunks |-> c, failAt |-> k]

RichResponses ==
    UNION { { MkResponse(st, h, m, c, k) :
                st \in {200, 404}, h \in HeaderSamples,
                m \in {MediaNone, "application/json"},
                k \in 0..(Len(c) + 1) } : c \in ChunkSamples }

\* What the environment of one invocation does: how often the handler reads
\* the body, whether it raises or returns, and whether the error logger raises.
MkPlan(n, o, e, lr, resp) ==
    [reads |-> n, outcome |-> o, exc |-> e, loggerRaises |-> lr, resp |-> resp]

RichPlans ==
    { MkPlan(n, "raise", e, lr, NoResponse) :
        n \in 0..MaxReads, e \in HandlerExcs, lr \in BOOLEAN }
    \cup
    { MkPlan(n, "return", NoExc, FALSE, resp) :
        n \in 0..MaxReads, resp \in RichResponses }

\* Inputs of concurrent invocations: every field names its own request.
LeanRequest(r) ==
    [method |-> "POST", url |-> "http://h/" \o ToString(r),
     query |-> << <<"id", ToString(r)>> >>,
     headers |-> << <<"x-req", ToString(r)>> >>,
     chunks |-> << <<48 + r>>, <<10>> >>]

LeanPlans(r) ==
    { MkPlan(1, "raise",
             [type |-> "ValueError", arg |-> "bad " \o ToString(r),
              origin |-> "handler"], lr, NoResponse) : lr \in BOOLEAN }
    \cup
    { MkPlan(1, "return", NoExc, FALSE,
             MkResponse(200 + r, << <<"x-id", ToString(r)>> >>, MediaNone,
                        << <<96 + r>>, <<33>> >>, k)) : k \in {0, 2} }

IdleRequest == MkRequest(CHOOSE m \in RequestMetas : m.method = "GET", << <<>> >>)
IdlePlan == MkPlan(0, "raise", NoExc, FALSE, NoResponse)


\* -------------------------------------------------------------------- state
VARIABLES
    live,        \* the invocations of middleware_logger that take place
    req,         \* req[r]: the request as the client sent it
    plan,        \* plan[r]: what the handler and the error logger do in call r
    pc,          \* pc[r]: where invocation r stands
    frame,       \* the local variables of the invocations
    wire,        \* wire[q]: http.request messages of request q not yet received
    buf,         \* buf[q]: chunks gathered so far by request.body()
    receive,     \* receive[q]: request._receive of request object q
    passed,      \* passed[r]: the request object given to call_next
    seen,        \* seen[r]: what each body read of the handler returned
    respObj,     \* respObj[r]: the response object the handler returned
    fetched,     \* fetched[r]: chunks taken from respObj[r].body_iterator
    propagated,  \* propagated[r]: the exception that left the middleware
    returned,    \* returned[r]: the Response the middleware returned
    client,      \* client[r]: the response handed to the transport
    events,      \* events[r]: the logger calls made for invocation r
    logCall,     \* the last call of a default logger: which one, with what
    emitted,     \* the lines that call passed to the logging module
    levels,      \* the level of each named logger of the logging module
    calls        \* calls of disable_loggers made so far

mwVars == <<live, req, plan, pc, frame, wire, buf, receive, passed, seen,
            respObj, fetched, propagated, returned, client, events>>
logVars == <<logCall, emitted>>
disVars == <<levels, calls>>
vars == <<mwVars, logVars, disVars>>

EmptyFrame ==
    [request |-> 0, request_body |-> <<>>, exc |-> NoExc, response |-> 0,
     response_body |-> <<>>]

RawReceive == [kind |-> "wire", body |-> <<>>]
NoCall == [logger |-> "none", kwargs |-> <<>>]
LoggerNames == {"root", "fastapi", "uvicorn", "uvicorn.access", "uvicorn.error"}
Levels == {0, 10, 20, 30, 40, CRITICAL}

\* Faulty variant, for testing the properties: the locals kept in one place shared by all invocations
FrameShared(r) == 1

\* Each invocation of the coroutine middleware_logger has its own frame.
FrameOf(r) == r

\* ------------------------------------------------------ the logger arguments
RequestKwargs(f) ==
    LET q == req[frame[f].request]
    IN  [request_body |-> parse_body(frame[f].request_body),
         request_headers |-> HeadersDict(q.headers),
         request_query_params |-> QueryDict(q.query),
         request_method |-> q.method,
         request_url |-> q.url]

\* Faulty variant, for testing the properties: error_message = type(exc).__name__ in place of str(exc)
ErrorKwargsTypeName(f) ==
    [kind |-> "error", request |-> RequestKwargs(f),
     error_message |-> frame[f].exc.type]

\* the keyword arguments of custom_error_logger
ErrorKwargs(f) ==
    [kind |-> "error", request |-> RequestKwargs(f),
     error_message |-> Str(frame[f].exc)]

\* the keyword arguments of the BackgroundTask that calls custom_logger
SuccessKwargs(f) ==
    LET o == respObj[frame[f].response]
    IN  [kind |-> "success", request |-> RequestKwargs(f),
         response_body |-> parse_body(frame[f].response_body),
         response_headers |-> HeadersDict(o.headers),
         response_media_type |-> o.media_type,
         response_status_code |-> o.status_code]

\* Response(content=..., status_code=..., headers=dict(...), media_type=...,
\*          background=task)
MkReturned(f) ==
    LET o == respObj[frame[f].response]
    IN  [kind |-> "response",
         content |-> frame[f].response_body,
         status_code |-> o.status_code,
         headers |-> HeadersDict(o.headers),
         media_type |-> o.media_type,
         background |-> SuccessKwargs(f)]

\* ------------------------------------------------------------ initial states
InitLogIdle == logCall = NoCall /\ emitted = <<>>
InitDisIdle == levels = [n \in LoggerNames |-> 0] /\ calls = 0

InitMiddleware ==
    /\ pc = [r \in Reqs |-> IF r \in live THEN "start" ELSE "absent"]
    /\ frame = [r \in Reqs |-> EmptyFrame]
    /\ wire = [r \in Reqs |-> req[r].chunks]
    /\ buf = [r \in Reqs |-> <<>>]
    /\ receive = [r \in Reqs |-> RawReceive]
    /\ passed = [r \in Reqs |-> 0]
    /\ seen = [r \in Reqs |-> <<>>]
    /\ respObj = [r \in Reqs |-> NoResponse]
    /\ fetched = [r \in Reqs |-> 0]
    /\ propagated = [r \in Reqs |-> NoExc]
    /\ returned = [r \in Reqs |-> NoResponse]
    /\ client = [r \in Reqs |-> NoResponse]
    /\ events = [r \in Reqs |-> <<>>]

\* One request in flight, drawn from the rich inputs.
Init ==
    /\ live = {1}
    /\ \E q \in RichRequests :
          req = [r \in Reqs |-> IF r = 1 THEN q ELSE IdleRequest]
    /\ \E p \in RichPlans :
          plan = [r \in Reqs |-> IF r = 1 THEN p ELSE IdlePlan]
    /\ InitMiddleware
    /\ InitLogIdle
    /\ InitDisIdle

\* NumReqs requests in flight at once.
InitConcurrent ==
    /\ live = Reqs
    /\ req = [r \in Reqs |-> LeanRequest(r)]
    /\ plan \in { p \in [Reqs -> UNION { LeanPlans(r) : r \in Reqs }] :
                    \A r \in Reqs : p[r] \in LeanPlans(r) }
    /\ InitMiddleware
    /\ InitLogIdle
    /\ InitDisIdle

\* ---------------------------------------------------------- middleware_logger
\* async def middleware_logger(request, call_next): the call binds `request`
Enter(r) ==
    /\ pc[r] = "start"
    /\ frame' = [frame EXCEPT ![FrameOf(r)].request = r]
    /\ pc' = [pc EXCEPT ![r] = "read_body"]
    /\ UNCHANGED <<live, req, plan, wire, buf, receive, passed, seen, respObj,
                   fetched, propagated, returned, client, events>>
    /\ UNCHANGED <<logVars, disVars>>

\* request_body = await request.body(): one http.request message per step;
\* the last message (more_body false) completes the body
ReadRequestBody(r) ==
    LET f == FrameOf(r)
        q == frame[f].request
    IN  /\ pc[r] = "read_body"
        /\ wire[q] # <<>>
        /\ wire' = [wire EXCEPT ![q] = Tail(@)]
        /\ buf' = [buf EXCEPT ![q] = @ \o Head(wire[q])]
        /\ IF Len(wire[q]) = 1
           THEN /\ frame' = [frame EXCEPT
                                ![f].request_body = buf[q] \o Head(wire[q])]
                /\ pc' = [pc EXCEPT ![r] = "set_body"]
           ELSE UNCHANGED <<frame, pc>>
        /\ UNCHANGED <<live, req, plan, receive, passed, seen, respObj,
                       fetched, propagated, returned, client, events>>
        /\ UNCHANGED <<logVars, disVars>>

\* Faulty variant, for testing the properties: set_body builds receive() but never installs it on the request
set_body_not_installed(r) ==
    /\ pc[r] = "set_body"
    /\ pc' = [pc EXCEPT ![r] = "call_next"]
    /\ UNCHANGED <<live, req, plan, frame, wire, buf, receive, passed, seen,
                   respObj, fetched, propagated, returned, client, events>>
    /\ UNCHANGED <<logVars, disVars>>

\* await set_body(request, request_body): request._receive = receive, where
\* receive() returns {"type": "http.request", "body": body}
set_body(r) ==
    LET f == FrameOf(r)
        q == frame[f].request
    IN  /\ pc[r] = "set_body"
        /\ receive' = [receive EXCEPT
                          ![q] = [kind |-> "replay",
                                  body |-> frame[f].request_body]]
        /\ pc' = [pc EXCEPT ![r] = "call_next"]
        /\ UNCHANGED <<live, req, plan, frame, wire, buf, passed, seen,
                       respObj, fetched, propagated, returned, client, events>>
        /\ UNCHANGED <<logVars, disVars>>

\* response = await call_next(request): the handler starts on `request`
call_next(r) ==
    /\ pc[r] = "call_next"
    /\ passed' = [passed EXCEPT ![r] = frame[FrameOf(r)].request]
    /\ pc' = [pc EXCEPT ![r] = "in_handler"]
    /\ UNCHANGED <<live, req, plan, frame, wire, buf, receive, seen, respObj,
                   fetched, propagated, returned, client, events>>
    /\ UNCHANGED <<logVars, disVars>>

\* The handler reads the whole body through request._receive.
HandlerReadBody(r) ==
    LET q == passed[r]
        fromWire == receive[q].kind = "wire"
        got == IF ~fromWire
               THEN [kind |-> "body", v |-> receive[q].body]
               ELSE IF wire[q] # <<>>
               THEN [kind |-> "body", v |-> Concat(wire[q])]
               ELSE [kind |-> "disconnect", v |-> <<>>]
    IN  /\ pc[r] = "in_handler"
        /\ Len(seen[r]) < plan[q].reads
        /\ seen' = [seen EXCEPT ![r] = Append(@, got)]
        /\ wire' = IF fromWire THEN [wire EXCEPT ![q] = <<>>] ELSE wire
        /\ UNCHANGED <<live, req, plan, pc, frame, buf, receive, passed,
                       respObj, fetched, propagated, returned, client, events>>
        /\ UNCHANGED <<logVars, disVars>>

\* The handler raises: `except Exception as exc` binds it, or, for an
\* exception that is not an Exception, it leaves the middleware at once.
HandlerRaises(r) ==
    LET q == passed[r]
    IN  /\ pc[r] = "in_handler"
        /\ Len(seen[r]) = plan[q].reads
        /\ plan[q].outcome = "raise"
        /\ IF IsException(plan[q].exc)
           THEN /\ frame' = [frame EXCEPT ![FrameOf(r)].exc = plan[q].exc]
                /\ pc' = [pc EXCEPT ![r] = "except"]
                /\ UNCHANGED propagated
           ELSE /\ propagated' = [propagated EXCEPT ![r] = plan[q].exc]
                /\ pc' = [pc EXCEPT ![r] = "raised"]
                /\ UNCHANGED frame
        /\ UNCHANGED <<live, req, plan, wire, buf, receive, passed, seen,
                       respObj, fetched, returned, client, events>>
        /\ UNCHANGED <<logVars, disVars>>

\* The handler returns a response; response_body = b""
HandlerReturns(r) ==
    LET q == passed[r]
    IN  /\ pc[r] = "in_handler"
        /\ Len(seen[r]) = plan[q].reads
        /\ plan[q].outcome = "return"
        /\ respObj' = [respObj EXCEPT ![r] = plan[q].resp]
        /\ frame' = [frame EXCEPT ![FrameOf(r)].response = r,
                                  ![FrameOf(r)].response_body = <<>>]
        /\ pc' = [pc EXCEPT ![r] = "drain"]
        /\ UNCHANGED <<live, req, plan, wire, buf, receive, passed, seen,
                       fetched, propagated, returned, client, events>>
        /\ UNCHANGED <<logVars, disVars>>

\* custom_error_logger(**{...}): called in the except block; when the logger
\* itself raises, its exception leaves the middleware
LogError(r) ==
    /\ pc[r] = "except"
    /\ events' = [events EXCEPT ![r] = Append(@, ErrorKwargs(FrameOf(r)))]
    /\ IF plan[r].loggerRaises
       THEN /\ propagated' = [propagated EXCEPT ![r] = LoggerExc]
            /\ pc' = [pc EXCEPT ![r] = "raised"]
       ELSE /\ pc' = [pc EXCEPT ![r] = "reraise"]
            /\ UNCHANGED propagated
    /\ UNCHANGED <<live, req, plan, frame, wire, buf, receive, passed, seen,
                   respObj, fetched, returned, client>>
    /\ UNCHANGED <<logVars, disVars>>

\* Faulty variant, for testing the properties: raise Exception(str(exc)) in place of raise exc
ReraiseWrapped(r) ==
    /\ pc[r] = "reraise"
    /\ propagated' = [propagated EXCEPT
                         ![r] = [type |-> "Exception",
                                 arg |-> Str(frame[FrameOf(r)].exc),
                                 origin |-> "middleware"]]
    /\ pc' = [pc EXCEPT ![r] = "raised"]
    /\ UNCHANGED <<live, req, plan, frame, wire, buf, receive, passed, seen,
                   respObj, fetched, returned, client, events>>
    /\ UNCHANGED <<logVars, disVars>>

\* raise exc
Reraise(r) ==
    /\ pc[r] = "reraise"
    /\ propagated' = [propagated EXCEPT ![r] = frame[FrameOf(r)].exc]
    /\ pc' = [pc EXCEPT ![r] = "raised"]
    /\ UNCHANGED <<live, req, plan, frame, wire, buf, receive, passed, seen,
                   respObj, fetched, returned, client, events>>
    /\ UNCHANGED <<logVars, disVars>>

\* async for chunk in response.body_iterator: response_body += chunk
DrainChunk(r) ==
    LET f == FrameOf(r)
        o == frame[f].response
    IN  /\ pc[r] = "drain"
        /\ fetched[o] < Len(respObj[o].chunks)
        /\ respObj[o].failAt # fetched[o] + 1
        /\ frame' = [frame EXCEPT
                        ![f].response_body = @ \o respObj[o].chunks[fetched[o] + 1]]
        /\ fetched' = [fetched EXCEPT ![o] = @ + 1]
        /\ UNCHANGED <<live, req, plan, pc, wire, buf, receive, passed, seen,
                       respObj, propagated, returned, client, events>>
        /\ UNCHANGED <<logVars, disVars>>

\* Faulty variant, for testing the properties: the loop wrapped in try/except: the partial body is kept
DrainFailsCaught(r) ==
    LET o == frame[FrameOf(r)].response
    IN  /\ pc[r] = "drain"
        /\ respObj[o].failAt = fetched[o] + 1
        /\ pc' = [pc EXCEPT ![r] = "build"]
        /\ UNCHANGED <<live, req, plan, frame, wire, buf, receive, passed,
                       seen, respObj, fetched, propagated, returned, client,
                       events>>
        /\ UNCHANGED <<logVars, disVars>>

\* the iterator raises: nothing around the loop catches it
DrainFails(r) ==
    LET o == frame[FrameOf(r)].response
    IN  /\ pc[r] = "drain"
        /\ respObj[o].failAt = fetched[o] + 1
        /\ propagated' = [propagated EXCEPT ![r] = StreamExc]
        /\ pc' = [pc EXCEPT ![r] = "raised"]
        /\ UNCHANGED <<live, req, plan, frame, wire, buf, receive, passed,
                       seen, respObj, fetched, returned, client, events>>
        /\ UNCHANGED <<logVars, disVars>>

\* the iterator is exhausted: the loop ends
DrainEnd(r) ==
    LET o == frame[FrameOf(r)].response
    IN  /\ pc[r] = "drain"
        /\ fetched[o] = Len(respObj[o].chunks)
        /\ respObj[o].failAt # fetched[o] + 1
        /\ pc' = [pc EXCEPT ![r] = "build"]
        /\ UNCHANGED <<live, req, plan, frame, wire, buf, receive, passed,
                       seen, respObj, fetched, propagated, returned, client,
                       events>>
        /\ UNCHANGED <<logVars, disVars>>

\* Faulty variant, for testing the properties: custom_logger(**{...}) called in the middleware before the return
BuildResponseEager(r) ==
    /\ pc[r] = "build"
    /\ returned' = [returned EXCEPT ![r] = MkReturned(FrameOf(r))]
    /\ events' = [events EXCEPT ![r] = Append(@, SuccessKwargs(FrameOf(r)))]
    /\ pc' = [pc EXCEPT ![r] = "returned"]
    /\ UNCHANGED <<live, req, plan, frame, wire, buf, receive, passed, seen,
                   respObj, fetched, propagated, client>>
    /\ UNCHANGED <<logVars, disVars>>

\* task = BackgroundTask(custom_logger, **{...}); return Response(...)
BuildResponse(r) ==
    /\ pc[r] = "build"
    /\ returned' = [returned EXCEPT ![r] = MkReturned(FrameOf(r))]
    /\ pc' = [pc EXCEPT ![r] = "returned"]
    /\ UNCHANGED <<live, req, plan, frame, wire, buf, receive, passed, seen,
                   respObj, fetched, propagated, client, events>>
    /\ UNCHANGED <<logVars, disVars>>

\* The host sends the returned response to the client ...
SendResponse(r) ==
    /\ pc[r] = "returned"
    /\ client' = [client EXCEPT
                     ![r] = [kind |-> "response",
                             content |-> returned[r].content,
                             status_code |-> returned[r].status_code,
                             headers |-> returned[r].headers,
                             media_type |-> returned[r].media_type]]
    /\ pc' = [pc EXCEPT ![r] = "sent"]
    /\ UNCHANGED <<live, req, plan, frame, wire, buf, receive, passed, seen,
                   respObj, fetched, propagated, returned, events>>
    /\ UNCHANGED <<logVars, disVars>>

\* ... and then runs its background task, which calls custom_logger.
RunBackgroundTask(r) ==
    /\ pc[r] = "sent"
    /\ events' = [events EXCEPT ![r] = Append(@, returned[r].background)]
    /\ pc' = [pc EXCEPT ![r] = "complete"]
    /\ UNCHANGED <<live, req, plan, frame, wire, buf, receive, passed, seen,
                   respObj, fetched, propagated, returned, client>>
    /\ UNCHANGED <<logVars, disVars>>

Next ==
    \E r \in Reqs :
        \/ Enter(r)
        \/ ReadRequestBody(r)
        \/ set_body(r)
        \/ call_next(r)
        \/ HandlerReadBody(r)
        \/ HandlerRaises(r)
        \/ HandlerReturns(r)
        \/ LogError(r)
        \/ Reraise(r)
        \/ DrainChunk(r)
        \/ DrainFails(r)
        \/ DrainEnd(r)
        \/ BuildResponse(r)
        \/ SendResponse(r)
        \/ RunBackgroundTask(r)

Spec == Init /\ [][Next]_vars
SpecConcurrent == InitConcurrent /\ [][Next]_vars


\* ------------------------------------------- default_logger, default_error_logger
\* A keyword argument is <<name, value>>; a value is tagged with its Python type.
Bytes(n, seed) == [i \in 1..n |-> (seed + 7 * i) % 256]

BytesValue(b) == [t |-> "bytes", v |-> b]

OtherFields ==
    { <<"request_headers",
        [t |-> "dict", v |-> << <<"host", "h">>, <<"accept", "a">> >>]>>,
      <<"request_method", [t |-> "str", v |-> "GET"]>>,
      <<"response_status_code", [t |-> "int", v |-> 200]>>,
      <<"response_body", BytesValue(Bytes(MaxLen, 200))>> }

KwargsSamples ==
    { << <<"request_body", BytesValue(Bytes(n, seed))>>, o >> :
        n \in 0..MaxLen, seed \in {0, 65, 250}, o \in OtherFields }

\* Faulty variant, for testing the properties: v[:21]
SliceOneMore(v, stop) == SubSeq(v, 1, Min(stop + 1, Len(v)))

\* v[:stop] for stop >= 0
Slice(v, stop) == SubSeq(v, 1, Min(stop, Len(v)))

\* for kk, vv in v.items(): logging.<level>(f'{k}: {kk} = {vv}')
DictLines(k, items, level) ==
    [i \in 1..Len(items) |->
        [level |-> level, key |-> k, form |-> "item", inner |-> items[i][1],
         val |-> items[i][2]]]

\* the loop body of both default loggers, with the level of each branch
FieldLines(k, val, dictLevel, bytesLevel, otherLevel) ==
    IF val.t = "dict" THEN DictLines(k, val.v, dictLevel)
    ELSE IF val.t = "bytes"
    THEN << [level |-> bytesLevel, key |-> k, form |-> "bytes", inner |-> "",
             val |-> Slice(val.v, TruncLen)] >>
    ELSE << [level |-> otherLevel, key |-> k, form |-> "value", inner |-> "",
             val |-> val.v] >>

\* for k, v in kwargs.items(): ...
RECURSIVE LogLines(_, _, _, _)
LogLines(kwargs, dictLevel, bytesLevel, otherLevel) ==
    IF kwargs = <<>> THEN <<>>
    ELSE FieldLines(kwargs[1][1], kwargs[1][2], dictLevel, bytesLevel, otherLevel)
         \o LogLines(Tail(kwargs), dictLevel, bytesLevel, otherLevel)

default_logger ==
    \E kw \in KwargsSamples :
        /\ logCall' = [logger |-> "default_logger", kwargs |-> kw]
        /\ emitted' = LogLines(kw, "INFO", "DEBUG", "DEBUG")
        /\ UNCHANGED <<mwVars, disVars>>

default_error_logger ==
    \E kw \in KwargsSamples :
        /\ logCall' = [logger |-> "default_error_logger", kwargs |-> kw]
        /\ emitted' = LogLines(kw, "ERROR", "ERROR", "ERROR")
        /\ UNCHANGED <<mwVars, disVars>>

InitNoRequests ==
    /\ live = {}
    /\ req = [r \in Reqs |-> IdleRequest]
    /\ plan = [r \in Reqs |-> IdlePlan]
    /\ InitMiddleware

InitLoggers == InitNoRequests /\ InitLogIdle /\ InitDisIdle

NextLoggers == default_logger \/ default_error_logger

SpecLoggers == InitLoggers /\ [][NextLoggers]_vars

\* ------------------------------------------------------------ disable_loggers
NextTier(l) == IF l + 10 > CRITICAL THEN CRITICAL ELSE l + 10

\* Faulty variant, for testing the properties: each call raises the four levels by one tier
disable_loggers_one_tier ==
    /\ calls < MaxCalls
    /\ levels' = [levels EXCEPT !["uvicorn.error"] = NextTier(@),
                                !["uvicorn.access"] = NextTier(@),
                                !["uvicorn"] = NextTier(@),
                                !["fastapi"] = NextTier(@)]
    /\ calls' = calls + 1
    /\ UNCHANGED <<mwVars, logVars>>

\* logging.getLogger(name).setLevel(level=logging.CRITICAL), four names
disable_loggers ==
    /\ calls < MaxCalls
    /\ levels' = [levels EXCEPT !["uvicorn.error"] = CRITICAL,
                                !["uvicorn.access"] = CRITICAL,
                                !["uvicorn"] = CRITICAL,
                                !["fastapi"] = CRITICAL]
    /\ calls' = calls + 1
    /\ UNCHANGED <<mwVars, logVars>>

\* any configuration of the logger levels, before the first call
InitDisable ==
    /\ InitNoRequests
    /\ InitLogIdle
    /\ levels \in [LoggerNames -> Levels]
    /\ calls = 0

NextDisable == disable_loggers

SpecDisable == InitDisable /\ [][NextDisable]_vars

\* ============================================================ the middleware
ClientBytes(r) == Concat(req[r].chunks)

Finished(r) == pc[r] \in {"raised", "complete"}

HandlerRaised(r) == r \in live /\ plan[r].outcome = "raise" /\ pc[r] = "raised"

HasSuccessEvent(r) == \E i \in 1..Len(events[r]) : events[r][i].kind = "success"

\* the request fields a Log Event of request r has to carry
RequestFieldsOf(r) ==
    [request_body |-> parse_body(ClientBytes(r)),
     request_headers |-> HeadersDict(req[r].headers),
     request_query_params |-> QueryDict(req[r].query),
     request_method |-> req[r].method,
     request_url |-> req[r].url]

ErrorEventOf(r) ==
    [kind |-> "error", request |-> RequestFieldsOf(r),
     error_message |-> Str(plan[r].exc)]

\* the iterator of the handler's response raised while it was drained
DrainFailed(r) ==
    /\ respObj[r].kind = "response"
    /\ respObj[r].failAt > 0
    /\ fetched[r] = respObj[r].failAt - 1
    /\ pc[r] # "drain"

\* C1: once a request is finished (its exception has left the middleware, or
\* its response was sent and the background task ran), exactly one logger
\* call was made for it: the success logger if the handler returned, the
\* error logger if it raised (an Exception, which `except Exception` binds).
C1_ExactlyOneLogEvent ==
    \A r \in live :
        (Finished(r) /\ (plan[r].outcome = "raise" => IsException(plan[r].exc))) =>
            /\ Len(events[r]) = 1
            /\ events[r][1].kind =
                   (IF plan[r].outcome = "return" THEN "success" ELSE "error")

\* C2: the response the middleware returns has the status code, the header
\* list (every value of a repeated name included), the media type and the
\* body bytes of the handler's response.
C2_ResponseIdentical ==
    \A r \in live :
        returned[r].kind = "response" =>
            /\ returned[r].status_code = plan[r].resp.status_code
            /\ returned[r].headers = plan[r].resp.headers
            /\ returned[r].media_type = plan[r].resp.media_type
            /\ returned[r].content = Concat(plan[r].resp.chunks)

\* C3: whenever the success logger has run for a request, the reconstructed
\* response of that request had been handed to the transport before; the
\* middleware itself has made no success logger call when it returns.
C3_SentBeforeSuccessLog ==
    \A r \in live :
        HasSuccessEvent(r) =>
            /\ client[r].kind = "response"
            /\ client[r].content = returned[r].content
            /\ pc[r] = "complete"

C3_Witness ==
    \E r \in live :
        /\ HasSuccessEvent(r)
        /\ client[r].kind = "response"
        /\ Len(client[r].content) >= 2

\* C4 (as stated): when the handler raised an Exception, the error logger was
\* called once, before the exception left, with the request fields and
\* error_message = str(exc); the exception that left is the handler's; the
\* success logger was neither called nor scheduled.
C4_ErrorPathAsStated ==
    \A r \in live :
        /\ pc[r] = "reraise" => events[r] = <<ErrorEventOf(r)>>
        /\ (HandlerRaised(r) /\ IsException(plan[r].exc)) =>
              /\ events[r] = <<ErrorEventOf(r)>>
              /\ propagated[r] = plan[r].exc
              /\ returned[r] = NoResponse

\* C4 (amended): as C4, except that the handler's exception is the one that
\* leaves only when the error logger returns; when the error logger raises,
\* the logger's exception leaves.
C4_ErrorPathAmended ==
    \A r \in live :
        /\ pc[r] = "reraise" => events[r] = <<ErrorEventOf(r)>>
        /\ (HandlerRaised(r) /\ IsException(plan[r].exc)) =>
              /\ events[r] = <<ErrorEventOf(r)>>
              /\ propagated[r] =
                     (IF plan[r].loggerRaises THEN LoggerExc ELSE plan[r].exc)
              /\ returned[r] = NoResponse

C4_Witness ==
    \E r \in live :
        /\ HandlerRaised(r)
        /\ plan[r].exc.type = "KeyError"
        /\ ~plan[r].loggerRaises
        /\ Len(events[r]) = 1
        /\ events[r][1].error_message = "'k'"
        /\ events[r][1].request.request_body.kind = "bytes"

\* C5: every body read of the handler returns the whole body, with the bytes
\* the client sent, however often the handler reads.
C5_HandlerSeesFullBody ==
    \A r \in live :
        \A i \in 1..Len(seen[r]) :
            seen[r][i] = [kind |-> "body", v |-> ClientBytes(r)]

C5_Witness ==
    \E r \in live :
        /\ Len(seen[r]) >= 2
        /\ Len(req[r].chunks) = 2
        /\ Len(ClientBytes(r)) = 3

\* C6 (as stated): whenever the handler raised, the exception that leaves the
\* middleware is the handler's, also when the error logger raises.
C6_HandlerExceptionAlwaysSurfaces ==
    \A r \in live : HandlerRaised(r) => propagated[r] = plan[r].exc

\* C6 (amended): whenever the handler raised, the exception that leaves the
\* middleware is the handler's, unless the error logger was called and
\* raised: then the logger's exception leaves.
C6_HandlerExceptionSurfacesAmended ==
    \A r \in live :
        HandlerRaised(r) =>
            propagated[r] =
                (IF IsException(plan[r].exc) /\ plan[r].loggerRaises
                 THEN LoggerExc ELSE plan[r].exc)

C6_Witness ==
    \E r \in live :
        /\ HandlerRaised(r)
        /\ plan[r].exc.type = "ValueError"
        /\ ~plan[r].loggerRaises
        /\ propagated[r] = plan[r].exc

\* C9: when draining the handler's response failed, the stream's exception
\* left the middleware, no response was returned or sent, and no logger call
\* was made or scheduled.
C9_DrainFailurePropagates ==
    \A r \in live :
        DrainFailed(r) =>
            /\ pc[r] = "raised"
            /\ propagated[r] = StreamExc
            /\ returned[r] = NoResponse
            /\ client[r] = NoResponse
            /\ events[r] = <<>>

C9_Witness ==
    \E r \in live :
        /\ DrainFailed(r)
        /\ fetched[r] >= 1
        /\ Len(respObj[r].chunks) > fetched[r]
        /\ propagated[r] = StreamExc

\* C10: with several invocations interleaved, every Log Event of invocation r
\* carries the request fields of request r and the response fields or error
\* message of r's own handler; the response returned for r carries the body of
\* r's handler; the handler of r is given request r and reads r's body.
C10_NoCrossTalk ==
    \A r \in live :
        /\ \A i \in 1..Len(events[r]) :
              LET e == events[r][i]
              IN  /\ e.request = RequestFieldsOf(r)
                  /\ e.kind = "error" => e.error_message = Str(plan[r].exc)
                  /\ e.kind = "success" =>
                        /\ e.response_body =
                               parse_body(Concat(plan[r].resp.chunks))
                        /\ e.response_status_code = plan[r].resp.status_code
                        /\ e.response_headers =
                               HeadersDict(plan[r].resp.headers)
        /\ returned[r].kind = "response" =>
              /\ returned[r].content = Concat(plan[r].resp.chunks)
              /\ returned[r].status_code = plan[r].resp.status_code
        /\ passed[r] \in {0, r}
        /\ \A i \in 1..Len(seen[r]) : seen[r][i].v = ClientBytes(r)
        /\ receive[r].kind = "replay" => receive[r].body = ClientBytes(r)

C10_Witness ==
    \E r1, r2 \in live :
        /\ r1 # r2
        /\ pc[r1] = "complete"
        /\ HasSuccessEvent(r1)
        /\ pc[r2] = "drain"
        /\ fetched[r2] = 1
        /\ Len(seen[r2]) = 1


\* ======================================================== the default loggers
\* the line a default logger emitted for the bytes field k: exactly one
BytesLineOf(k) ==
    emitted[CHOOSE j \in 1..Len(emitted) :
                emitted[j].key = k /\ emitted[j].form = "bytes"]

OneBytesLine(k) ==
    Cardinality({ j \in 1..Len(emitted) :
                    emitted[j].key = k /\ emitted[j].form = "bytes" }) = 1

\* line shows the first min(20, len) bytes of v
ShowsPrefix(line, v) ==
    /\ Len(line.val) = (IF Len(v) > 20 THEN 20 ELSE Len(v))
    /\ \A n \in 1..Len(line.val) : line.val[n] = v[n]

\* C7 (as stated): for every bytes field, both default loggers emit one line
\* that shows the first min(20, len) bytes, at debug level.
C7_BytesTruncatedAtDebug ==
    \A i \in 1..Len(logCall.kwargs) :
        LET k == logCall.kwargs[i][1]
            val == logCall.kwargs[i][2]
        IN  val.t = "bytes" =>
                /\ OneBytesLine(k)
                /\ ShowsPrefix(BytesLineOf(k), val.v)
                /\ BytesLineOf(k).level = "DEBUG"

\* C7 (amended): for every bytes field, both default loggers emit one line
\* that shows the first min(20, len) bytes; default_logger emits it at debug
\* level, default_error_logger at error level.
C7_BytesTruncatedAmended ==
    \A i \in 1..Len(logCall.kwargs) :
        LET k == logCall.kwargs[i][1]
            val == logCall.kwargs[i][2]
        IN  val.t = "bytes" =>
                /\ OneBytesLine(k)
                /\ ShowsPrefix(BytesLineOf(k), val.v)
                /\ BytesLineOf(k).level =
                       (IF logCall.logger = "default_logger"
                        THEN "DEBUG" ELSE "ERROR")

C7_Witness ==
    /\ logCall.logger = "default_error_logger"
    /\ \E i, j \in 1..Len(logCall.kwargs) :
          /\ logCall.kwargs[i][2].t = "bytes"
          /\ Len(logCall.kwargs[i][2].v) > 20
          /\ Len(BytesLineOf(logCall.kwargs[i][1]).val) = 20
          /\ logCall.kwargs[j][2].t = "bytes"
          /\ Len(logCall.kwargs[j][2].v) \in 1..20
          /\ BytesLineOf(logCall.kwargs[j][1]).val = logCall.kwargs[j][2].v

\* =========================================================== disable_loggers
\* C8: after the first call of disable_loggers the framework, server-access
\* and server-error loggers are at CRITICAL, and every further call leaves
\* the level of every logger as it was.
C8_DisableIdempotent ==
    /\ [](calls >= 1 =>
            /\ levels["fastapi"] = 50
            /\ levels["uvicorn.access"] = 50
            /\ levels["uvicorn.error"] = 50)
    /\ [][calls >= 1 => levels' = levels]_vars

C8_Witness ==
    /\ calls >= 2
    /\ levels["root"] # 50
    /\ levels["fastapi"] = 50

====
